---- MODULE Spec2Model ----
(***************************************************************************)
(* Resolver engine of the product catalog API (index.js): identity         *)
(* resolution from the Authorization header, register / login / me, the    *)
(* admin-guarded product mutations and the products query.                 *)
(*                                                                         *)
(* Every resolver is an async function: the code up to its first await     *)
(* runs when the request is dispatched, and each awaited store or bcrypt   *)
(* call is one later step, so the steps of concurrent requests interleave. *)
(* A store call (findOne, save, findByIdAndUpdate, findByIdAndDelete) is   *)
(* one atomic step of the store.                                           *)
(***************************************************************************)
EXTENDS Integers, Sequences, FiniteSets, TLC

VARIABLES users, products, nextProductId, issued, clock, req, reply

vars == <<users, products, nextProductId, issued, clock, req, reply>>

-----------------------------------------------------------------------------
(* Bounds of the model *)

MaxClock == 2
MaxTokens == 1
MaxProductIds == 2
MaxStored == 3
MaxSkip == 2
MaxLimit == 2

(* Program constants.  Time is counted in days: expiresIn is "1d". *)

SaltRounds == 10
ExpiresIn == 1

(* Two requests can be in flight at a time. *)
Requests == {"r1", "r2"}

-----------------------------------------------------------------------------
(* Values *)

NULL == [null |-> TRUE]

JWT_SECRET == "JWT_SECRET"

Unauthorized == "Unauthorized"
UsernameExists == "Username already exists"
UserNotFound == "User not found"
InvalidCredentials == "Invalid credentials"
ProductNotFound == "Product not found"
DuplicateKey == "E11000 duplicate key error"

UserRegistered == "User registered"
ProductDeleted == "Product deleted successfully"

Salts == {"s1", "s2"}

Ok(v) == [ok |-> TRUE, value |-> v]
Throw(msg) == [ok |-> FALSE, error |-> msg]
Failed(out, msg) == ~out.ok /\ out.error = msg

-----------------------------------------------------------------------------
(* bcryptjs *)

Digest(password, salt, rounds) == <<"bcrypt", rounds, salt, password>>

BcryptHash(password, rounds, salt) ==
    [rounds |-> rounds, salt |-> salt, digest |-> Digest(password, salt, rounds)]

BcryptCompare(password, hash) ==
    Digest(password, hash.salt, hash.rounds) = hash.digest

-----------------------------------------------------------------------------
(* jsonwebtoken.  A token is its payload and the signature over it. *)

Hmac(key, payload) == <<"HS256", key, payload>>

JwtSign(claims, key, now) ==
    LET payload == [id |-> claims.id, isAdmin |-> claims.isAdmin,
                    iat |-> now, exp |-> now + ExpiresIn]
    IN  [kind |-> "jwt", payload |-> payload, sig |-> Hmac(key, payload)]

JwtVerify(token, key, now) ==
    IF token.kind # "jwt" THEN Throw("jwt malformed")
    ELSE IF token.sig # Hmac(key, token.payload) THEN Throw("invalid signature")
    ELSE IF now >= token.payload.exp THEN Throw("jwt expired")
    ELSE Ok(token.payload)

-----------------------------------------------------------------------------
(* The request context.  A header is the sequence of the space-separated    *)
(* parts of the Authorization header; <<>> is a request without the header. *)

EmptyString == [kind |-> "empty"]
Word(w) == [kind |-> "word", text |-> w]

NoHeader == <<>>

Split(header) == IF header = NoHeader THEN <<EmptyString>> ELSE header

Truthy(part) == part # NULL /\ part # EmptyString

HeaderToken(header) ==
    LET parts == Split(header)
    IN  IF Len(parts) >= 2 THEN parts[2] ELSE NULL

DecodeOnly(header, now) ==
    LET token == HeaderToken(header)
    IN  IF Truthy(token) /\ token.kind = "jwt" THEN token.payload ELSE NULL

Context(header, now) ==
    LET token == HeaderToken(header)
    IN  IF Truthy(token)
        THEN LET v == JwtVerify(token, JWT_SECRET, now)
             IN  IF v.ok THEN v.value ELSE NULL
        ELSE NULL

AnyIdentityPasses(user) == user = NULL

IsAdminMissing(user) == user = NULL \/ ~user.isAdmin

AdminOnly(user) == user = NULL \/ ~user.isAdmin

IdentityMissing(user) == user = NULL

-----------------------------------------------------------------------------
(* The User collection: documents in insertion order, unique index on      *)
(* username.                                                               *)

FindUserByUsername(username) ==
    IF \E i \in 1..Len(users) : users[i].username = username
    THEN users[CHOOSE i \in 1..Len(users) : users[i].username = username]
    ELSE NULL

FindUserById(id) ==
    IF \E i \in 1..Len(users) : users[i].id = id
    THEN users[CHOOSE i \in 1..Len(users) : users[i].id = id]
    ELSE NULL

NoUniqueIndex(username) == FALSE

UniqueIndexViolated(username) ==
    \E i \in 1..Len(users) : users[i].username = username

AdminIfSupplied(args) == "isAdmin" \in DOMAIN args

OrFalse(args) ==
    IF "isAdmin" \in DOMAIN args /\ args.isAdmin THEN args.isAdmin ELSE FALSE

-----------------------------------------------------------------------------
(* Credentials a caller can present *)

Tampered(token) ==
    [token EXCEPT !.payload = [token.payload EXCEPT !.isAdmin = ~token.payload.isAdmin]]

Forged(now) == JwtSign([id |-> 1, isAdmin |-> TRUE], "guessed", now)

Malformed == [kind |-> "garbage"]

Credentials ==
    issued \cup {Tampered(t) : t \in issued} \cup {Forged(clock), Malformed, EmptyString}

Headers ==
    {NoHeader}
        \cup {<<Word("Bearer"), c>> : c \in Credentials}
        \cup {<<t>> : t \in issued}
        \cup {<<Word("Bearer")>>}

-----------------------------------------------------------------------------
(* Requests.  req[r] is a request whose resolver is waiting for a store or *)
(* bcrypt call; reply is the response of the resolver that has just        *)
(* settled.  A settled resolver's response is formatted and sent in the    *)
(* same turn of the event loop, before any other callback runs.            *)

Idle == [pc |-> "idle"]

Free(r) == req[r].pc = "idle"

(* Whether the record a request names was stored when it was dispatched. *)
Existed(op, args) ==
    CASE op \in {"register", "login"} -> FindUserByUsername(args.username) # NULL
      [] op \in {"updateProduct", "deleteProduct"} ->
            \E i \in 1..Len(products) : products[i].id = args.id
      [] OTHER -> FALSE

NewRequest(op, args, header, pc) ==
    [pc |-> pc, op |-> op, args |-> args, header |-> header, at |-> clock,
     user |-> Context(header, clock), existed |-> Existed(op, args), local |-> NULL]

Response(q, out) ==
    [op |-> q.op, args |-> q.args, header |-> q.header, at |-> q.at,
     user |-> q.user, existed |-> q.existed, out |-> out]

Await(r, q) ==
    /\ req' = [req EXCEPT ![r] = q]
    /\ UNCHANGED reply

Settle(r, q, out) ==
    /\ req' = [req EXCEPT ![r] = Idle]
    /\ reply' = Response(q, out)

Respond ==
    /\ reply # NULL
    /\ reply' = NULL
    /\ UNCHANGED <<users, products, nextProductId, issued, clock, req>>

RegisterArgs ==
    {[username |-> "alice", password |-> "pw1"],
     [username |-> "alice", password |-> "pw2", isAdmin |-> FALSE],
     [username |-> "admin", password |-> "pw", isAdmin |-> TRUE]}

LoginArgs ==
    {[username |-> "alice", password |-> "pw1"],
     [username |-> "alice", password |-> "pw2"],
     [username |-> "admin", password |-> "pw"]}

-----------------------------------------------------------------------------
(* Mutation.register.  The resolver takes no context argument, so the    *)
(* Authorization header of the request plays no part in it.               *)

BeginRegister(r, args) ==
    /\ reply = NULL /\ Free(r)
    /\ Await(r, NewRequest("register", args, NoHeader, "findOne"))
    /\ UNCHANGED <<users, products, nextProductId, issued, clock>>

RegisterFindOne(r) ==
    /\ reply = NULL
    /\ req[r].pc = "findOne" /\ req[r].op = "register"
    /\ LET existing == FindUserByUsername(req[r].args.username)
       IN  IF existing # NULL
           THEN Settle(r, req[r], Throw(UsernameExists))
           ELSE Await(r, [req[r] EXCEPT !.pc = "hash"])
    /\ UNCHANGED <<users, products, nextProductId, issued, clock>>

RegisterHash(r) ==
    /\ reply = NULL
    /\ req[r].pc = "hash"
    /\ \E salt \in Salts :
          Await(r, [req[r] EXCEPT !.pc = "save",
                       !.local = BcryptHash(req[r].args.password, SaltRounds, salt)])
    /\ UNCHANGED <<users, products, nextProductId, issued, clock>>

RegisterSave(r) ==
    /\ reply = NULL
    /\ req[r].pc = "save" /\ req[r].op = "register"
    /\ IF UniqueIndexViolated(req[r].args.username)
       THEN /\ Settle(r, req[r], Throw(DuplicateKey))
            /\ UNCHANGED users
       ELSE /\ users' = Append(users, [id |-> Len(users) + 1,
                                       username |-> req[r].args.username,
                                       password |-> req[r].local,
                                       isAdmin |-> OrFalse(req[r].args)])
            /\ Settle(r, req[r], Ok(UserRegistered))
    /\ UNCHANGED <<products, nextProductId, issued, clock>>

-----------------------------------------------------------------------------
(* Mutation.login.  Like register, it does not read the context. *)

BeginLogin(r, args) ==
    /\ reply = NULL /\ Free(r)
    /\ Await(r, NewRequest("login", args, NoHeader, "findOne"))
    /\ UNCHANGED <<users, products, nextProductId, issued, clock>>

LoginFindOne(r) ==
    /\ reply = NULL
    /\ req[r].pc = "findOne" /\ req[r].op = "login"
    /\ LET user == FindUserByUsername(req[r].args.username)
       IN  IF user = NULL
           THEN Settle(r, req[r], Throw(UserNotFound))
           ELSE Await(r, [req[r] EXCEPT !.pc = "compare", !.local = user])
    /\ UNCHANGED <<users, products, nextProductId, issued, clock>>

LoginCompare(r) ==
    /\ reply = NULL
    /\ req[r].pc = "compare"
    /\ LET user == req[r].local
           isMatch == BcryptCompare(req[r].args.password, user.password)
           token == JwtSign([id |-> user.id, isAdmin |-> user.isAdmin], JWT_SECRET, clock)
       IN  IF ~isMatch
           THEN /\ Settle(r, req[r], Throw(InvalidCredentials))
                /\ UNCHANGED issued
           ELSE /\ token \in issued \/ Cardinality(issued) < MaxTokens
                /\ issued' = issued \cup {token}
                /\ Settle(r, req[r], Ok(token))
    /\ UNCHANGED <<users, products, nextProductId, clock>>

-----------------------------------------------------------------------------
(* Query.me *)

UserView(doc) ==
    IF doc = NULL THEN NULL
    ELSE [id |-> doc.id, username |-> doc.username, isAdmin |-> doc.isAdmin]

BeginMe(r, header) ==
    /\ reply = NULL /\ Free(r)
    /\ LET q == NewRequest("me", NULL, header, "findById")
       IN  IF IdentityMissing(q.user)
           THEN Settle(r, q, Throw(Unauthorized))
           ELSE Await(r, q)
    /\ UNCHANGED <<users, products, nextProductId, issued, clock>>

MeFindById(r) ==
    /\ reply = NULL
    /\ req[r].pc = "findById" /\ req[r].op = "me"
    /\ Settle(r, req[r], Ok(UserView(FindUserById(req[r].user.id))))
    /\ UNCHANGED <<users, products, nextProductId, issued, clock>>

-----------------------------------------------------------------------------
(* The Product collection: documents in insertion order.  A document holds  *)
(* the schema paths it was given and its store-assigned id.                 *)

SchemaPaths == {"name", "description", "price", "category", "brand", "rating"}

NewProduct(args, id) ==
    [f \in (DOMAIN args \cap SchemaPaths) \cup {"id"} |->
        IF f = "id" THEN id ELSE args[f]]

HasProduct(id) == \E i \in 1..Len(products) : products[i].id = id

ProductIndex(id) == CHOOSE i \in 1..Len(products) : products[i].id = id

ReplaceDocument(doc, args) ==
    [f \in (DOMAIN args \cap SchemaPaths) \cup {"id"} |->
        IF f = "id" THEN doc.id ELSE args[f]]

ApplyUpdate(doc, args) ==
    [f \in DOMAIN doc \cup (DOMAIN args \cap SchemaPaths) |->
        IF f \in DOMAIN args \cap SchemaPaths THEN args[f] ELSE doc[f]]

RemoveAt(seq, i) == SubSeq(seq, 1, i - 1) \o SubSeq(seq, i + 1, Len(seq))

ProductIds == 1..MaxProductIds

AddProductArgs ==
    {[name |-> "Widget", price |-> 10],
     [name |-> "Gadget", price |-> 0, category |-> "tools", brand |-> "acme"]}

UpdateFields == {[price |-> 20, category |-> "toys"]}

WithId(fields, id) ==
    [f \in DOMAIN fields \cup {"id"} |-> IF f = "id" THEN id ELSE fields[f]]

UpdateProductArgs == {WithId(fields, id) : fields \in UpdateFields, id \in ProductIds}

DeleteProductArgs == [id : ProductIds]

-----------------------------------------------------------------------------
(* Mutation.addProduct *)

BeginAddProduct(r, header, args) ==
    /\ reply = NULL /\ Free(r)
    /\ LET q == NewRequest("addProduct", args, header, "save")
       IN  IF IsAdminMissing(q.user)
           THEN Settle(r, q, Throw(Unauthorized))
           ELSE Await(r, q)
    /\ UNCHANGED <<users, products, nextProductId, issued, clock>>

AddProductSave(r) ==
    /\ reply = NULL
    /\ req[r].pc = "save" /\ req[r].op = "addProduct"
    /\ nextProductId <= MaxProductIds
    /\ LET doc == NewProduct(req[r].args, nextProductId)
       IN  /\ products' = Append(products, doc)
           /\ nextProductId' = nextProductId + 1
           /\ Settle(r, req[r], Ok(doc))
    /\ UNCHANGED <<users, issued, clock>>

-----------------------------------------------------------------------------
(* Mutation.updateProduct *)

BeginUpdateProduct(r, header, args) ==
    /\ reply = NULL /\ Free(r)
    /\ LET q == NewRequest("updateProduct", args, header, "findByIdAndUpdate")
       IN  IF IsAdminMissing(q.user)
           THEN Settle(r, q, Throw(Unauthorized))
           ELSE Await(r, q)
    /\ UNCHANGED <<users, products, nextProductId, issued, clock>>

UpdateProductFindByIdAndUpdate(r) ==
    /\ reply = NULL
    /\ req[r].pc = "findByIdAndUpdate"
    /\ IF HasProduct(req[r].args.id)
       THEN LET i == ProductIndex(req[r].args.id)
                updated == ApplyUpdate(products[i], req[r].args)
            IN  /\ products' = [products EXCEPT ![i] = updated]
                /\ Settle(r, req[r], Ok(updated))
       ELSE /\ Settle(r, req[r], Throw(ProductNotFound))
            /\ UNCHANGED products
    /\ UNCHANGED <<users, nextProductId, issued, clock>>

-----------------------------------------------------------------------------
(* Mutation.deleteProduct *)

BeginDeleteProduct(r, header, args) ==
    /\ reply = NULL /\ Free(r)
    /\ LET q == NewRequest("deleteProduct", args, header, "findByIdAndDelete")
       IN  IF IsAdminMissing(q.user)
           THEN Settle(r, q, Throw(Unauthorized))
           ELSE Await(r, q)
    /\ UNCHANGED <<users, products, nextProductId, issued, clock>>

DeleteProductFindByIdAndDelete(r) ==
    /\ reply = NULL
    /\ req[r].pc = "findByIdAndDelete"
    /\ IF HasProduct(req[r].args.id)
       THEN /\ products' = RemoveAt(products, ProductIndex(req[r].args.id))
            /\ Settle(r, req[r], Ok(ProductDeleted))
       ELSE /\ Settle(r, req[r], Throw(ProductNotFound))
            /\ UNCHANGED products
    /\ UNCHANGED <<users, nextProductId, issued, clock>>

-----------------------------------------------------------------------------
(* Query.products.  Arguments are a record of the arguments supplied.       *)

NoArgs == [f \in {} |-> 0]

Merge(a, b) ==
    [f \in DOMAIN a \cup DOMAIN b |-> IF f \in DOMAIN a THEN a[f] ELSE b[f]]

NumericArgs == {"minPrice", "maxPrice", "limit", "skip"}

TruthyArg(args, f) ==
    /\ f \in DOMAIN args
    /\ IF f \in NumericArgs THEN args[f] # 0 ELSE args[f] # ""

BuildFilter(args) ==
    LET category == IF TruthyArg(args, "category")
                    THEN [category |-> args.category] ELSE NoArgs
        brand == IF TruthyArg(args, "brand") THEN [brand |-> args.brand] ELSE NoArgs
        gte == IF TruthyArg(args, "minPrice") THEN [gte |-> args.minPrice] ELSE NoArgs
        lte == IF TruthyArg(args, "maxPrice") THEN [lte |-> args.maxPrice] ELSE NoArgs
        price == IF TruthyArg(args, "minPrice") \/ TruthyArg(args, "maxPrice")
                 THEN [price |-> Merge(gte, lte)] ELSE NoArgs
    IN  Merge(category, Merge(brand, price))

BuildQuery(args) ==
    LET sort == IF TruthyArg(args, "sortBy") THEN [sort |-> args.sortBy] ELSE NoArgs
        skip == IF TruthyArg(args, "skip") THEN [skip |-> args.skip] ELSE NoArgs
        limit == IF TruthyArg(args, "limit") THEN [limit |-> args.limit] ELSE NoArgs
    IN  Merge([filter |-> BuildFilter(args)], Merge(sort, Merge(skip, limit)))

(* The store's side of the query *)

InRange(value, range) ==
    /\ "gte" \in DOMAIN range => value >= range.gte
    /\ "lte" \in DOMAIN range => value <= range.lte

Matches(doc, filter) ==
    \A f \in DOMAIN filter :
        /\ f \in DOMAIN doc
        /\ IF f = "price" THEN InRange(doc[f], filter[f]) ELSE doc[f] = filter[f]

Find(filter) == SelectSeq(products, LAMBDA doc : Matches(doc, filter))

(* Comparison order of the store: a missing field, then numbers, then      *)
(* strings in binary order.                                                *)

NumericPaths == {"price", "rating"}

StringOrder == <<"", "Gadget", "Widget", "acme", "tools", "toys">>

StringRank(str) == CHOOSE i \in 1..Len(StringOrder) : StringOrder[i] = str

SortKey(doc, path) ==
    IF path \notin DOMAIN doc THEN <<0, 0>>
    ELSE IF path \in NumericPaths THEN <<1, doc[path]>>
    ELSE <<2, StringRank(doc[path])>>

KeyLeq(a, b) == a[1] < b[1] \/ (a[1] = b[1] /\ a[2] <= b[2])

Orderings(n) ==
    {p \in [1..n -> 1..n] : \A i, j \in 1..n : p[i] = p[j] => i = j}

(* Documents with equal keys come back in any order. *)
SortAscending(docs, path) ==
    {[i \in 1..Len(docs) |-> docs[p[i]]] : p \in
        {p \in Orderings(Len(docs)) :
            \A i \in 1..(Len(docs) - 1) :
                KeyLeq(SortKey(docs[p[i]], path), SortKey(docs[p[i + 1]], path))}}

Skip(docs, n) == SubSeq(docs, n + 1, Len(docs))

Limit(docs, n) == SubSeq(docs, 1, IF n < Len(docs) THEN n ELSE Len(docs))

LimitThenSkip(query) ==
    LET found == Find(query.filter)
        sorted == IF "sort" \in DOMAIN query
                  THEN SortAscending(found, query.sort) ELSE {found}
    IN  {LET limited == IF "limit" \in DOMAIN query THEN Limit(docs, query.limit) ELSE docs
         IN  IF "skip" \in DOMAIN query THEN Skip(limited, query.skip) ELSE limited
         : docs \in sorted}

Exec(query) ==
    LET found == Find(query.filter)
        sorted == IF "sort" \in DOMAIN query
                  THEN SortAscending(found, query.sort) ELSE {found}
    IN  {LET skipped == IF "skip" \in DOMAIN query THEN Skip(docs, query.skip) ELSE docs
         IN  IF "limit" \in DOMAIN query THEN Limit(skipped, query.limit) ELSE skipped
         : docs \in sorted}

BeginProducts(r, header, args) ==
    /\ reply = NULL /\ Free(r)
    /\ Await(r, [NewRequest("products", args, header, "exec")
                    EXCEPT !.local = BuildQuery(args)])
    /\ UNCHANGED <<users, products, nextProductId, issued, clock>>

ProductsExec(r) ==
    /\ reply = NULL
    /\ req[r].pc = "exec"
    /\ \E result \in Exec(req[r].local) : Settle(r, req[r], Ok(result))
    /\ UNCHANGED <<users, products, nextProductId, issued, clock>>

-----------------------------------------------------------------------------
(* Time *)

Tick ==
    /\ reply = NULL
    /\ clock < MaxClock
    /\ clock' = clock + 1
    /\ UNCHANGED <<users, products, nextProductId, issued, req, reply>>

-----------------------------------------------------------------------------
(* Accounts: registration, login and the current-user read, from an empty   *)
(* store.                                                                   *)

Init ==
    /\ users = <<>>
    /\ products = <<>>
    /\ nextProductId = 1
    /\ issued = {}
    /\ clock = 0
    /\ req = [r \in Requests |-> Idle]
    /\ reply = NULL

NextAccounts ==
    \/ \E r \in Requests, a \in RegisterArgs : BeginRegister(r, a)
    \/ \E r \in Requests : RegisterFindOne(r)
    \/ \E r \in Requests : RegisterHash(r)
    \/ \E r \in Requests : RegisterSave(r)
    \/ \E r \in Requests, a \in LoginArgs : BeginLogin(r, a)
    \/ \E r \in Requests : LoginFindOne(r)
    \/ \E r \in Requests : LoginCompare(r)
    \/ \E r \in Requests, h \in Headers : BeginMe(r, h)
    \/ \E r \in Requests : MeFindById(r)
    \/ Tick
    \/ Respond

SpecAccounts == Init /\ [][NextAccounts]_vars

-----------------------------------------------------------------------------
(* Catalog: the guarded operations, from the state the accounts reach when  *)
(* alice (no admin flag) and admin (admin flag) have registered and logged  *)
(* in at time 0.                                                            *)

AliceDoc ==
    [id |-> 1, username |-> "alice",
     password |-> BcryptHash("pw1", SaltRounds, "s1"), isAdmin |-> FALSE]

AdminDoc ==
    [id |-> 2, username |-> "admin",
     password |-> BcryptHash("pw", SaltRounds, "s2"), isAdmin |-> TRUE]

TokenOf(doc, now) == JwtSign([id |-> doc.id, isAdmin |-> doc.isAdmin], JWT_SECRET, now)

InitCatalog ==
    /\ users = <<AliceDoc, AdminDoc>>
    /\ products = <<>>
    /\ nextProductId = 1
    /\ issued = {TokenOf(AliceDoc, 0), TokenOf(AdminDoc, 0)}
    /\ clock = 0
    /\ req = [r \in Requests |-> Idle]
    /\ reply = NULL

NextCatalog ==
    \/ \E r \in Requests, h \in Headers, a \in AddProductArgs : BeginAddProduct(r, h, a)
    \/ \E r \in Requests : AddProductSave(r)
    \/ \E r \in Requests, h \in Headers, a \in UpdateProductArgs : BeginUpdateProduct(r, h, a)
    \/ \E r \in Requests : UpdateProductFindByIdAndUpdate(r)
    \/ \E r \in Requests, h \in Headers, a \in DeleteProductArgs : BeginDeleteProduct(r, h, a)
    \/ \E r \in Requests : DeleteProductFindByIdAndDelete(r)
    \/ \E r \in Requests, h \in Headers : BeginMe(r, h)
    \/ \E r \in Requests : MeFindById(r)
    \/ Tick
    \/ Respond

SpecCatalog == InitCatalog /\ [][NextCatalog]_vars

-----------------------------------------------------------------------------
(* Queries: the products query over every store of up to MaxStored of the   *)
(* documents addProduct and updateProduct leave in the collection.          *)

StoredFields ==
    AddProductArgs \cup {ApplyUpdate(a, u) : a \in AddProductArgs, u \in UpdateFields}

Stores ==
    UNION {{[i \in 1..n |-> NewProduct(f[i], i)] : f \in [1..n -> StoredFields]} :
              n \in 0..MaxStored}

Optional(name, values) == {NoArgs} \cup {[f \in {name} |-> v] : v \in values}

FilterArgs ==
    {Merge(Merge(c, b), Merge(lo, hi)) :
        c \in Optional("category", {"", "tools", "toys"}),
        b \in Optional("brand", {"", "acme"}),
        lo \in Optional("minPrice", {0, 10, 20}),
        hi \in Optional("maxPrice", {0, 10, 20})}

PageArgs ==
    {Merge(Merge(c, s), Merge(k, l)) :
        c \in Optional("category", {"toys"}),
        s \in Optional("sortBy", {"", "price", "name", "category"}),
        k \in Optional("skip", 0..MaxSkip),
        l \in Optional("limit", 0..MaxLimit)}

ProductsArgs == FilterArgs \cup PageArgs

InitQuery ==
    /\ users = <<>>
    /\ products \in Stores
    /\ nextProductId = Len(products) + 1
    /\ issued = {}
    /\ clock = 0
    /\ req = [r \in Requests |-> Idle]
    /\ reply = NULL

NextQuery ==
    \/ \E a \in ProductsArgs : BeginProducts("r1", NoHeader, a)
    \/ ProductsExec("r1")
    \/ Respond

SpecQuery == InitQuery /\ [][NextQuery]_vars

-----------------------------------------------------------------------------
(* Properties *)

IsReply(op) == reply # NULL /\ reply.op = op

Settled == reply = NULL /\ reply' # NULL

Range(seq) == {seq[i] : i \in 1..Len(seq)}

Stored == Range(products)

Has(doc, path, value) == path \in DOMAIN doc /\ doc[path] = value

(* C6: a products query given only price bounds returns exactly the stored  *)
(* products whose price lies within every bound supplied, zero included.    *)
C6_PriceBounds ==
    IsReply("products") /\ DOMAIN reply.args \subseteq {"minPrice", "maxPrice"} =>
        /\ reply.out.ok
        /\ Len(reply.out.value) = Cardinality(Range(reply.out.value))
        /\ Range(reply.out.value) =
              {p \in Stored :
                  /\ "minPrice" \in DOMAIN reply.args => p.price >= reply.args.minPrice
                  /\ "maxPrice" \in DOMAIN reply.args => p.price <= reply.args.maxPrice}

(* C7: a products query given only category and/or brand returns exactly    *)
(* the stored products equal to every string supplied.                      *)
C7_ExactMatch ==
    IsReply("products") /\ DOMAIN reply.args \subseteq {"category", "brand"} =>
        /\ reply.out.ok
        /\ Len(reply.out.value) = Cardinality(Range(reply.out.value))
        /\ Range(reply.out.value) =
              {p \in Stored :
                  /\ "category" \in DOMAIN reply.args =>
                        Has(p, "category", reply.args.category)
                  /\ "brand" \in DOMAIN reply.args => Has(p, "brand", reply.args.brand)}

(* C10: with a sortBy field, skip >= 0 and limit >= 1 (either may be left   *)
(* out), the result is the slice skip+1 .. min(skip+limit, N) of an         *)
(* ascending ordering of the N filtered products, and the query's steps     *)
(* leave the store as it was.                                               *)
Paged ==
    /\ IsReply("products")
    /\ DOMAIN reply.args \subseteq {"category", "sortBy", "skip", "limit"}
    /\ "sortBy" \in DOMAIN reply.args /\ reply.args.sortBy \in SchemaPaths
    /\ "category" \in DOMAIN reply.args => reply.args.category # ""
    /\ "limit" \in DOMAIN reply.args => reply.args.limit >= 1

Min(a, b) == IF a < b THEN a ELSE b

IsSlice(result, filtered, path, skip, last) ==
    LET rest == filtered \ Range(result)
        Leq(a, b) == KeyLeq(SortKey(a, path), SortKey(b, path))
    IN  /\ Range(result) \subseteq filtered
        /\ Len(result) = Cardinality(Range(result))
        /\ Len(result) = IF last > skip THEN last - skip ELSE 0
        /\ \A i \in 1..(Len(result) - 1) : Leq(result[i], result[i + 1])
        /\ \E before \in SUBSET rest :
              /\ Cardinality(before) = Min(skip, Cardinality(filtered))
              /\ \A b \in before : \A x \in Range(result) \cup (rest \ before) : Leq(b, x)
              /\ \A x \in Range(result) : \A a \in rest \ before : Leq(x, a)

C10_Inv ==
    Paged =>
        LET args == reply.args
            filtered == {p \in Stored :
                            "category" \in DOMAIN args => Has(p, "category", args.category)}
            N == Cardinality(filtered)
            skip == IF "skip" \in DOMAIN args THEN args.skip ELSE 0
            last == IF "limit" \in DOMAIN args THEN Min(skip + args.limit, N) ELSE N
        IN  reply.out.ok /\ IsSlice(reply.out.value, filtered, args.sortBy, skip, last)

QueryStep ==
    \E r \in Requests :
        /\ req[r].pc = "exec" \/ req'[r].pc = "exec"
        /\ req'[r] # req[r]

C10_Pagination == [](C10_Inv) /\ [][QueryStep => products' = products]_vars

C10_Witness ==
    /\ Paged
    /\ reply.args = [sortBy |-> "price", skip |-> 1, limit |-> 1]
    /\ Len(products) = 3
    /\ Len(reply.out.value) = 1
    /\ reply.out.value[1].price = 10

Mutations == {"addProduct", "updateProduct", "deleteProduct"}

InFlight(r) == req[r].pc # "idle"

NotAdmin(user) == user = NULL \/ user.isAdmin = FALSE

Bearer(token) == <<Word("Bearer"), token>>

(* C1: a mutation whose identity context is absent or not admin is never    *)
(* let past the guard, ends with Unauthorized, and leaves the Product       *)
(* collection as it was.                                                    *)
C1_Inv ==
    /\ \A r \in Requests : InFlight(r) /\ req[r].op \in Mutations => ~NotAdmin(req[r].user)
    /\ reply # NULL /\ reply.op \in Mutations /\ NotAdmin(reply.user) =>
          Failed(reply.out, Unauthorized)

C1_Step ==
    Settled /\ reply'.op \in Mutations /\ NotAdmin(reply'.user) =>
        products' = products /\ nextProductId' = nextProductId

C1_UnauthorizedMutation == [](C1_Inv) /\ [][C1_Step]_vars

C1_Witness ==
    /\ IsReply("deleteProduct")
    /\ reply.user # NULL /\ ~reply.user.isAdmin
    /\ HasProduct(reply.args.id)
    /\ Failed(reply.out, Unauthorized)

(* C2: a register request dispatched while no user has its username ends    *)
(* with the success marker or with Conflict, whatever the interleaving with *)
(* a concurrent request for the same username, and one user is stored.      *)
UsernamesUnique ==
    \A i, j \in 1..Len(users) : users[i].username = users[j].username => i = j

C2_ConcurrentRegister ==
    /\ UsernamesUnique
    /\ IsReply("register") /\ ~reply.existed =>
          /\ reply.out.ok \/ Failed(reply.out, UsernameExists)
          /\ \E i \in 1..Len(users) : users[i].username = reply.args.username

(* C3: a register request for a username already stored when it is          *)
(* dispatched fails with Conflict and changes no User record; stored        *)
(* records never change and no two of them share a username.                *)
C3_Inv ==
    /\ UsernamesUnique
    /\ IsReply("register") /\ reply.existed => Failed(reply.out, UsernameExists)
    /\ \A r \in Requests :
          InFlight(r) /\ req[r].op = "register" /\ req[r].existed => req[r].pc = "findOne"

C3_Step ==
    /\ \A i \in 1..Len(users) : Len(users') >= i /\ users'[i] = users[i]
    /\ Settled /\ reply'.op = "register" /\ reply'.existed => users' = users

C3_DuplicateRejected == [](C3_Inv) /\ [][C3_Step]_vars

C3_Witness ==
    /\ IsReply("register") /\ reply.existed
    /\ Failed(reply.out, UsernameExists)
    /\ Len(users) = 2

(* C4: a successful register(u, p, a) stores u with a hash of p and the      *)
(* admin flag a (false when omitted); login(u, p) then returns a token that  *)
(* verification accepts until its expiry, yielding the user's id and flag;   *)
(* an unknown username gets NotFound, a wrong password InvalidCredentials,   *)
(* and neither issues a token.                                               *)
AdminFlag(args) == "isAdmin" \in DOMAIN args /\ args.isAdmin

RegisteredAs(doc, args) ==
    /\ doc.username = args.username
    /\ doc.password = BcryptHash(args.password, SaltRounds, doc.password.salt)
    /\ doc.isAdmin = AdminFlag(args)

Identifies(user, id, isAdmin) == user # NULL /\ user.id = id /\ user.isAdmin = isAdmin

TokenAccepted(token, doc, args) ==
    /\ token \in issued
    /\ token.payload.iat \in reply.at..clock
    /\ \A now \in token.payload.iat..(token.payload.iat + ExpiresIn - 1) :
          Identifies(Context(Bearer(token), now), doc.id, AdminFlag(args))

C4_Inv ==
    /\ IsReply("register") /\ reply.out.ok =>
          \E i \in 1..Len(users) : RegisteredAs(users[i], reply.args)
    /\ IsReply("login") /\ reply.existed =>
          LET doc == FindUserByUsername(reply.args.username)
          IN  \E args \in RegisterArgs :
                  /\ RegisteredAs(doc, args)
                  /\ IF reply.args.password = args.password
                     THEN reply.out.ok /\ TokenAccepted(reply.out.value, doc, args)
                     ELSE Failed(reply.out, InvalidCredentials)
    /\ IsReply("login") /\ FindUserByUsername(reply.args.username) = NULL =>
          Failed(reply.out, UserNotFound)
    /\ \A token \in issued :
          IsReply("me") /\ reply.header = Bearer(token) /\ reply.at < token.payload.exp =>
              /\ Identifies(reply.user, token.payload.id, token.payload.isAdmin)
              /\ reply.out = Ok(UserView(FindUserById(token.payload.id)))

C4_Step == Settled /\ reply'.op = "login" /\ ~reply'.out.ok => issued' = issued

C4_LoginAfterRegister == [](C4_Inv) /\ [][C4_Step]_vars

C4_Witness ==
    /\ IsReply("me")
    /\ reply.user # NULL /\ reply.user.isAdmin
    /\ reply.out.ok /\ reply.out.value.username = "admin"

(* C5: a credential that is malformed, expired or not signed with the       *)
(* signing key resolves to no identity, and the guarded operation it was    *)
(* presented to ends as one presented with no credential: Unauthorized.     *)
Presented(header) == Len(header) >= 2 /\ header[2] # EmptyString

BadCredential(header, at) ==
    /\ Presented(header)
    /\ LET token == header[2]
       IN  \/ token.kind # "jwt"
           \/ token.sig[2] # JWT_SECRET
           \/ token.sig[3] # token.payload
           \/ at - token.payload.iat >= ExpiresIn

C5_BadCredentialIsAnonymous ==
    /\ \A r \in Requests : InFlight(r) => ~BadCredential(req[r].header, req[r].at)
    /\ reply # NULL /\ BadCredential(reply.header, reply.at) =>
          reply.user = NULL /\ reply.out = Throw(Unauthorized)

C5_Witness ==
    /\ IsReply("me")
    /\ \E token \in issued :
          /\ reply.header = Bearer(token)
          /\ reply.at - token.payload.iat > ExpiresIn
    /\ reply.out = Throw(Unauthorized)

(* C8: with an admin identity, updateProduct and deleteProduct of an id     *)
(* that matches nothing fail with NotFound and change nothing; deleteProduct *)
(* of a stored id removes exactly that record, and updateProduct replaces    *)
(* exactly the supplied fields of that record.  Of two concurrent deletes of *)
(* one id, the one that reaches the store second finds nothing.              *)
Without(seq, id) == SelectSeq(seq, LAMBDA doc : doc.id # id)

C8_Update ==
    LET args == reply'.args
        supplied == DOMAIN args \ {"id"}
    IN  IF ~HasProduct(args.id)
        THEN Failed(reply'.out, ProductNotFound) /\ products' = products
        ELSE /\ Len(products') = Len(products)
             /\ \A i \in 1..Len(products) :
                   IF products[i].id # args.id
                   THEN products'[i] = products[i]
                   ELSE /\ products'[i].id = args.id
                        /\ DOMAIN products'[i] = DOMAIN products[i] \cup supplied
                        /\ \A f \in supplied : products'[i][f] = args[f]
                        /\ \A f \in DOMAIN products[i] \ supplied :
                              products'[i][f] = products[i][f]
                        /\ reply'.out = Ok(products'[i])

C8_Delete ==
    IF ~HasProduct(reply'.args.id)
    THEN Failed(reply'.out, ProductNotFound) /\ products' = products
    ELSE /\ reply'.out = Ok(ProductDeleted)
         /\ products' = Without(products, reply'.args.id)
         /\ Len(products') = Len(products) - 1

C8_Step ==
    /\ Settled /\ reply'.op = "updateProduct" /\ ~NotAdmin(reply'.user) => C8_Update
    /\ Settled /\ reply'.op = "deleteProduct" /\ ~NotAdmin(reply'.user) => C8_Delete
    /\ \A id \in ProductIds : id < nextProductId /\ ~HasProduct(id) => ~HasProduct(id)'

Guarded == Mutations \cup {"me"}

C9_AdminGuardOnMe ==
    /\ \A r \in Requests : InFlight(r) /\ req[r].op \in Guarded => ~NotAdmin(req[r].user)
    /\ reply # NULL /\ reply.op \in Guarded /\ NotAdmin(reply.user) =>
          reply.out = Throw(Unauthorized)

(* C9 amended: the three mutations answer Unauthorized to both kinds of     *)
(* caller; me() answers Unauthorized only to a caller without identity and  *)
(* answers a caller with a valid identity, admin or not, with its record.   *)
C9_GuardPerOperation ==
    /\ reply # NULL /\ reply.op \in Mutations /\ NotAdmin(reply.user) =>
          reply.out = Throw(Unauthorized)
    /\ IsReply("me") =>
          IF reply.user = NULL
          THEN reply.out = Throw(Unauthorized)
          ELSE reply.out = Ok(UserView(FindUserById(reply.user.id)))

C9_Witness ==
    /\ IsReply("me")
    /\ reply.user # NULL /\ ~reply.user.isAdmin
    /\ reply.out.ok /\ reply.out.value.username = "alice"

====
